---- MODULE Spec2Model ----
(***************************************************************************)
(* One invocation of fetch_gtfs_rt_data(url, retries) from                 *)
(* api_handler/fetch_data.py: the retry loop, the response envelope        *)
(* checks, the protobuf parse, the per-entity mapping and validation, and  *)
(* the except clauses that decide between retrying and raising.            *)
(*                                                                         *)
(* Python's Optional values are modelled as sets of at most one element:   *)
(* None is {} and a present value v is {v}.                                *)
(***************************************************************************)
EXTENDS Integers, Sequences, FiniteSets, TLC

\* ------------------------------------------------------------------------
\* Bounds of the model
\* ------------------------------------------------------------------------
MaxRetries == 3

MaxEntities == 2

\* ------------------------------------------------------------------------
\* Program constants
\* ------------------------------------------------------------------------
DefaultRetries == 3

RequiredContentType == "application/x-protobuf"

\* ------------------------------------------------------------------------
\* Optional values
\* ------------------------------------------------------------------------
None == {}

Some(v) == {v}

Get1(opt) == CHOOSE v \in opt : TRUE

\* ------------------------------------------------------------------------
\* Exceptions: the classes that can be in flight and their base classes
\* (requests.exceptions, pydantic, google.protobuf.message, builtins).
\* ------------------------------------------------------------------------
Bases(cls) ==
    CASE cls = "Timeout"          -> {"RequestException"}
      [] cls = "ConnectionError"  -> {"RequestException"}
      [] cls = "HTTPError"        -> {"RequestException"}
      [] cls = "InvalidURL"       -> {"RequestException", "ValueError"}
      [] cls = "RequestException" -> {"OSError"}
      [] cls = "OSError"          -> {"Exception"}
      [] cls = "ValidationError"  -> {"ValueError"}
      [] cls = "ValueError"       -> {"Exception"}
      [] cls = "DecodeError"      -> {"Exception"}
      [] cls = "RuntimeError"     -> {"Exception"}
      [] OTHER                    -> {}

RECURSIVE IsInstance(_, _)
IsInstance(cls, base) ==
    \/ cls = base
    \/ \E b \in Bases(cls) : IsInstance(b, base)

\* The except clauses of the try statement, in source order.
ExceptClausesNoValueError ==
    <<"HTTPError", "RequestException", "DecodeError", "ValidationError", "Exception">>

ExceptClausesNoDecodeError ==
    <<"HTTPError", "RequestException", "ValidationError", "ValueError", "Exception">>

ExceptClausesHTTPErrorLate ==
    <<"RequestException", "HTTPError", "DecodeError",
      "ValidationError", "ValueError", "Exception">>

ExceptClauses ==
    <<"HTTPError", "RequestException", "DecodeError",
      "ValidationError", "ValueError", "Exception">>

\* The clause that catches an exception of class cls: the first one, in
\* source order, that names cls or one of its base classes.
Handler(cls) ==
    LET matching == {i \in 1..Len(ExceptClauses) : IsInstance(cls, ExceptClauses[i])}
    IN  ExceptClauses[CHOOSE i \in matching : \A j \in matching : i <= j]

NoExc == [cls |-> "none", msg |-> ""]

Exc(cls, msg) == [cls |-> cls, msg |-> msg]

\* What requests.get can raise instead of returning a response.
GetExceptions ==
    {Exc("Timeout", ""), Exc("ConnectionError", ""), Exc("HTTPError", "500 Server Error"),
     Exc("InvalidURL", ""), Exc("RuntimeError", "")}

NetworkErrors == {"Timeout", "ConnectionError"}

\* ------------------------------------------------------------------------
\* The wire format (gtfs_realtime_pb2): a message is a record of optional
\* fields; an unset field is None.
\* ------------------------------------------------------------------------
TripFields ==
    {"trip_id", "route_id", "direction_id", "start_time", "start_date",
     "schedule_relationship"}

VehicleInfoFields == {"id", "label", "license_plate"}

PositionFields == {"latitude", "longitude", "bearing", "odometer", "speed"}

VehicleScalarFields ==
    {"current_stop_sequence", "stop_id", "current_status", "congestion_level",
     "occupancy_status", "occupancy_percentage"}

StringFields ==
    {"trip_id", "route_id", "start_time", "start_date", "id", "label",
     "license_plate", "stop_id"}

\* The value protobuf reports for a scalar field that is not set.
DefaultValue(field) == IF field \in StringFields THEN "" ELSE 0

\* A message of the given fields with none of them set; reading an unset
\* sub-message yields this default instance.
EmptyMessage(fields) == [f \in fields |-> None]

\* msg.HasField(field)
HasField(msg, field) == msg[field] # None

\* getattr(msg, field, None) on a protobuf message: the attribute always
\* exists, so the None fallback is never taken; an unset scalar reads as
\* its default value.
GetAttr(msg, field) ==
    IF HasField(msg, field) THEN msg[field] ELSE Some(DefaultValue(field))

\* msg.<field> for a sub-message field: the sub-message, or its default
\* (empty) instance when it is not set.
SubMessage(msg, field, fields) ==
    IF HasField(msg, field) THEN Get1(msg[field]) ELSE EmptyMessage(fields)

\* ---- sample wire payloads ----
WireTrip1 ==
    [EmptyMessage(TripFields) EXCEPT !["trip_id"] = Some("t1"),
                                     !["direction_id"] = Some(1)]

WireVehicleInfo1 == [EmptyMessage(VehicleInfoFields) EXCEPT !["label"] = Some("bus")]

WirePosition1 ==
    [EmptyMessage(PositionFields) EXCEPT !["latitude"] = Some(51),
                                         !["longitude"] = Some(7)]

\* A VehiclePosition with nothing set.
WireVehicleBare ==
    [trip |-> None, vehicle |-> None, position |-> None,
     current_stop_sequence |-> None, stop_id |-> None, current_status |-> None,
     congestion_level |-> None, occupancy_status |-> None,
     occupancy_percentage |-> None, multi_carriage_details |-> <<>>]

\* A VehiclePosition with sub-messages and scalars set.
WireVehicleFull ==
    [WireVehicleBare EXCEPT !.trip = Some(WireTrip1),
                            !.vehicle = Some(WireVehicleInfo1),
                            !.position = Some(WirePosition1),
                            !.stop_id = Some("s1"),
                            !.current_stop_sequence = Some(5)]

\* A VehiclePosition carrying one CarriageDetails sub-message.
WireVehicleCarriage ==
    [WireVehicleBare EXCEPT !.multi_carriage_details = <<"CarriageDetails">>]

WireEntity(id, vehicle, trip_update, alert) ==
    [id |-> id, vehicle |-> vehicle, trip_update |-> trip_update, alert |-> alert]

WireEntities ==
    {WireEntity(Some("e1"), Some(WireVehicleBare), None, None),
     WireEntity(Some("e2"), Some(WireVehicleFull), None, None),
     WireEntity(Some("e3"), Some(WireVehicleCarriage), None, None),
     WireEntity(None, Some(WireVehicleBare), None, None),
     WireEntity(Some("e4"), None, Some("TripUpdate"), None),
     WireEntity(Some("e5"), None, None, Some("Alert"))}

RECURSIVE SeqsUpTo(_, _)
SeqsUpTo(S, n) ==
    IF n = 0 THEN {<<>>}
    ELSE LET shorter == SeqsUpTo(S, n - 1)
         IN  shorter \cup {Append(s, x) : s \in {t \in shorter : Len(t) = n - 1}, x \in S}

\* Response bodies: empty, bytes the decoder rejects, and serialized feeds.
EmptyBody == [bytes |-> "empty", timestamp |-> None, entity |-> <<>>]

MalformedBody == [bytes |-> "malformed", timestamp |-> None, entity |-> <<>>]

FeedBody(es) == [bytes |-> "feed", timestamp |-> Some(100), entity |-> es]

FeedBodies == {FeedBody(es) : es \in SeqsUpTo(WireEntities, MaxEntities)}

Bodies == {EmptyBody, MalformedBody} \cup FeedBodies

StatusCodes == {200, 500}

ContentTypes == {Some(RequiredContentType), Some("text/html"), None}

\* The bodies tried with every status code and content type; the other
\* bodies come with status 200 and the required content type.
OtherBodies ==
    {EmptyBody, MalformedBody,
     FeedBody(<<WireEntity(Some("e1"), Some(WireVehicleBare), None, None)>>)}

\* What requests.get can return: status_code, headers.get('Content-Type')
\* and content.
Responses ==
    {r \in [status_code : StatusCodes, content_type : ContentTypes, content : Bodies] :
        \/ r.status_code = 200 /\ r.content_type = Some(RequiredContentType)
        \/ r.content \in OtherBodies}

NoResponse == [status_code |-> 0, content_type |-> None, content |-> EmptyBody]

NoFeed == [timestamp |-> None, entity |-> <<>>]

\* feed.ParseFromString(response.content): the decoded FeedMessage, or
\* DecodeError for bytes that are not a serialized FeedMessage.
Decodable(content) == content.bytes = "feed"

ParseFromString(content) == [timestamp |-> content.timestamp, entity |-> content.entity]

\* ------------------------------------------------------------------------
\* Step 3 of the try body: mapping and validation of one entity
\* ------------------------------------------------------------------------
\* The vehicle_data dict built for a vehicle entity.
VehicleData(entity, feed) ==
    LET v == Get1(entity.vehicle)
    IN  [id |-> GetAttr(entity, "id"),
         trip |-> Some([f \in TripFields |->
                          GetAttr(SubMessage(v, "trip", TripFields), f)]),
         vehicle |-> Some([f \in VehicleInfoFields |->
                          GetAttr(SubMessage(v, "vehicle", VehicleInfoFields), f)]),
         position |-> Some([f \in PositionFields |->
                          GetAttr(SubMessage(v, "position", PositionFields), f)]),
         current_stop_sequence |-> GetAttr(v, "current_stop_sequence"),
         stop_id |-> GetAttr(v, "stop_id"),
         current_status |-> GetAttr(v, "current_status"),
         timestamp |-> GetAttr(feed, "timestamp"),
         congestion_level |-> GetAttr(v, "congestion_level"),
         occupancy_status |-> GetAttr(v, "occupancy_status"),
         occupancy_percentage |-> GetAttr(v, "occupancy_percentage"),
         multi_carriage_details |-> v.multi_carriage_details]

\* VehiclePositionModel(**data): the names of the fields that violate the
\* schema.  id is a required str; multi_carriage_details is a list of
\* dicts, which a protobuf CarriageDetails message is not.  The remaining
\* fields are Optional and the decoder only produces values of their type.
Violations(data) ==
    {f \in {"id"} : data.id = None}
      \cup {f \in {"multi_carriage_details"} :
              \E i \in 1..Len(data.multi_carriage_details) :
                  data.multi_carriage_details[i] # "dict"}

EmptyResult == [vehicle |-> None, trip_update |-> None, alert |-> None]

EmptyDict == "{}"

\* One iteration of `for entity in feed.entity` that raises nothing: the
\* result dict after the entity has been processed.
ResultAfterAlertForTripUpdate(res, entity, feed) ==
    LET r1 == IF HasField(entity, "vehicle")
              THEN [res EXCEPT !.vehicle = Some(VehicleData(entity, feed))]
              ELSE res
    IN  IF HasField(entity, "trip_update") \/ HasField(entity, "alert")
        THEN [r1 EXCEPT !.alert = Some(EmptyDict)]
        ELSE r1

ResultAfterKeepFirstVehicle(res, entity, feed) ==
    LET r1 == IF HasField(entity, "vehicle") /\ res.vehicle = None
              THEN [res EXCEPT !.vehicle = Some(VehicleData(entity, feed))]
              ELSE res
        r2 == IF HasField(entity, "trip_update")
              THEN [r1 EXCEPT !.trip_update = Some(EmptyDict)]
              ELSE r1
    IN  IF HasField(entity, "alert")
        THEN [r2 EXCEPT !.alert = Some(EmptyDict)]
        ELSE r2

ResultAfter(res, entity, feed) ==
    LET r1 == IF HasField(entity, "vehicle")
              THEN [res EXCEPT !.vehicle = Some(VehicleData(entity, feed))]
              ELSE res
        r2 == IF HasField(entity, "trip_update")
              THEN [r1 EXCEPT !.trip_update = Some(EmptyDict)]
              ELSE r1
    IN  IF HasField(entity, "alert")
        THEN [r2 EXCEPT !.alert = Some(EmptyDict)]
        ELSE r2

\* Whether processing the entity raises ValidationError.
RaisesValidationError(entity, feed) ==
    /\ HasField(entity, "vehicle")
    /\ Violations(VehicleData(entity, feed)) # {}

\* The inner try around VehiclePositionModel(**vehicle_data): a
\* ValidationError is logged and re-raised.
ValidationOutcomeSwallowed(entity, feed) == "ok"

ValidationOutcome(entity, feed) ==
    IF RaisesValidationError(entity, feed) THEN "raise" ELSE "ok"

\* ------------------------------------------------------------------------
\* State of one invocation
\* ------------------------------------------------------------------------
VARIABLES
    retries,    \* the retries argument
    attempt,    \* the loop variable of `for attempt in range(retries)`
    pc,         \* where the invocation is
    events,     \* what happened so far: each GET (by outcome), sleep, parse,
                \* and entity processed, in order
    response,   \* the response of the current attempt
    exc,        \* the exception in flight inside the try statement
    feed,       \* the decoded FeedMessage
    idx,        \* index of the next entity of feed.entity
    result,     \* the result dict being filled
    status,     \* "running", "returned" or "raised"
    retval,     \* the value returned to the caller (None or a dict)
    raised      \* the exception that reached the caller

vars ==
    <<retries, attempt, pc, events, response, exc, feed, idx, result, status,
      retval, raised>>

RetriesValues == (-1)..MaxRetries

Init ==
    /\ retries \in RetriesValues
    /\ attempt = 0
    /\ pc = "for"
    /\ events = <<>>
    /\ response = NoResponse
    /\ exc = NoExc
    /\ feed = NoFeed
    /\ idx = 1
    /\ result = EmptyResult
    /\ status = "running"
    /\ retval = None
    /\ raised = NoExc

\* An exception raised inside the try body: control goes to the except
\* clauses.
Raise(e) ==
    /\ exc' = e
    /\ pc' = "except"

\* An exception leaves the function.
Propagate(e) ==
    /\ raised' = e
    /\ status' = "raised"
    /\ pc' = "done"

\* `for attempt in range(retries)`: the next iteration, or the end of the
\* function body (an implicit `return None`) when the range is exhausted.
LoopExhausted == attempt >= retries

ForLoop ==
    /\ pc = "for"
    /\ IF LoopExhausted
       THEN /\ pc' = "done"
            /\ status' = "returned"
            /\ retval' = None
       ELSE /\ pc' = "get"
            /\ UNCHANGED <<status, retval>>
    /\ UNCHANGED <<retries, attempt, events, response, exc, feed, idx, result, raised>>

\* requests.get(url, timeout=10): returns a response or raises.
RequestsGet ==
    /\ pc = "get"
    /\ \/ \E e \in GetExceptions :
            /\ events' = Append(events, e.cls)
            /\ Raise(e)
            /\ UNCHANGED response
       \/ \E r \in Responses :
            /\ events' = Append(events, "response")
            /\ response' = r
            /\ pc' = "check"
            /\ UNCHANGED exc
    /\ UNCHANGED <<retries, attempt, feed, idx, result, status, retval, raised>>

\* The envelope checks: content type, then empty content.
ContentTypeOk(r) == r.content_type = Some(RequiredContentType)

ContentEmpty(r) == r.content.bytes = "empty"

CheckResponse ==
    /\ pc = "check"
    /\ IF ~ContentTypeOk(response)
       THEN Raise(Exc("ValueError", "Unexpected content type"))
       ELSE IF ContentEmpty(response)
       THEN Raise(Exc("Exception", "No valid GTFS RT data found"))
       ELSE /\ pc' = "parse"
            /\ UNCHANGED exc
    /\ UNCHANGED <<retries, attempt, events, response, feed, idx, result, status,
                   retval, raised>>

\* Step 2: parse the protobuf data.
Parse ==
    /\ pc = "parse"
    /\ events' = Append(events, "parse")
    /\ IF Decodable(response.content)
       THEN /\ feed' = ParseFromString(response.content)
            /\ result' = EmptyResult
            /\ idx' = 1
            /\ pc' = "entities"
            /\ UNCHANGED exc
       ELSE /\ Raise(Exc("DecodeError", "Error parsing message"))
            /\ UNCHANGED <<feed, result, idx>>
    /\ UNCHANGED <<retries, attempt, response, status, retval, raised>>

\* Step 3: one iteration of the loop over feed.entity.
ProcessEntity ==
    /\ pc = "entities"
    /\ idx <= Len(feed.entity)
    /\ events' = Append(events, "entity")
    /\ IF ValidationOutcome(feed.entity[idx], feed) = "raise"
       THEN /\ Raise(Exc("ValidationError", "validation error for VehiclePositionModel"))
            /\ UNCHANGED <<result, idx>>
       ELSE /\ result' = ResultAfter(result, feed.entity[idx], feed)
            /\ idx' = idx + 1
            /\ UNCHANGED <<pc, exc>>
    /\ UNCHANGED <<retries, attempt, response, feed, status, retval, raised>>

\* GTFSRTDataModel(**result) and `return validated_result.model_dump()`.
ReturnResult ==
    /\ pc = "entities"
    /\ idx > Len(feed.entity)
    /\ IF result.vehicle # None /\ Violations(Get1(result.vehicle)) # {}
       THEN /\ Raise(Exc("ValidationError", "validation error for GTFSRTDataModel"))
            /\ UNCHANGED <<status, retval>>
       ELSE /\ retval' = Some(result)
            /\ status' = "returned"
            /\ pc' = "done"
            /\ UNCHANGED exc
    /\ UNCHANGED <<retries, attempt, events, response, feed, idx, result, raised>>

\* ------------------------------------------------------------------------
\* The except clauses
\* ------------------------------------------------------------------------
Caught(clause) ==
    /\ pc = "except"
    /\ Handler(exc.cls) = clause

\* `if attempt < retries - 1` in the two retrying clauses.
AttemptsLeftOffByOne == attempt < retries

AttemptsLeftOneShort == attempt < retries - 2

AttemptsLeft == attempt < retries - 1

\* except requests.exceptions.HTTPError: raise Exception("Error fetching ...")
ExceptHTTPError ==
    /\ Caught("HTTPError")
    /\ Propagate(Exc("Exception", "Error fetching GTFS RT data"))
    /\ UNCHANGED <<retries, attempt, events, response, exc, feed, idx, result, retval>>

\* The body shared by the two retrying clauses: sleep and go on with the
\* next iteration, or re-raise on the last one.
RetryOrRaiseRetriesExceeded ==
    IF AttemptsLeft
    THEN /\ pc' = "sleep"
         /\ UNCHANGED <<status, raised>>
    ELSE Propagate(Exc("Exception", "Max retries exceeded"))

RetryOrRaise ==
    IF AttemptsLeft
    THEN /\ pc' = "sleep"
         /\ UNCHANGED <<status, raised>>
    ELSE Propagate(exc)

\* except requests.exceptions.RequestException
ExceptRequestException ==
    /\ Caught("RequestException")
    /\ RetryOrRaise
    /\ UNCHANGED <<retries, attempt, events, response, exc, feed, idx, result, retval>>

\* except DecodeError: raise
ExceptDecodeError ==
    /\ Caught("DecodeError")
    /\ Propagate(exc)
    /\ UNCHANGED <<retries, attempt, events, response, exc, feed, idx, result, retval>>

\* except ValidationError: raise
ExceptValidationError ==
    /\ Caught("ValidationError")
    /\ Propagate(exc)
    /\ UNCHANGED <<retries, attempt, events, response, exc, feed, idx, result, retval>>

\* except ValueError: raise
ExceptValueError ==
    /\ Caught("ValueError")
    /\ Propagate(exc)
    /\ UNCHANGED <<retries, attempt, events, response, exc, feed, idx, result, retval>>

\* except Exception
ExceptException ==
    /\ Caught("Exception")
    /\ RetryOrRaise
    /\ UNCHANGED <<retries, attempt, events, response, exc, feed, idx, result, retval>>

\* time.sleep(2), after which the for loop takes its next iteration.
SleepSameAttempt ==
    /\ pc = "sleep"
    /\ events' = Append(events, "sleep")
    /\ exc' = NoExc
    /\ pc' = "for"
    /\ UNCHANGED <<retries, attempt, response, feed, idx, result, status, retval, raised>>

Sleep ==
    /\ pc = "sleep"
    /\ events' = Append(events, "sleep")
    /\ attempt' = attempt + 1
    /\ exc' = NoExc
    /\ pc' = "for"
    /\ UNCHANGED <<retries, response, feed, idx, result, status, retval, raised>>

Next ==
    \/ ForLoop
    \/ RequestsGet
    \/ CheckResponse
    \/ Parse
    \/ ProcessEntity
    \/ ReturnResult
    \/ ExceptHTTPError
    \/ ExceptRequestException
    \/ ExceptDecodeError
    \/ ExceptValidationError
    \/ ExceptValueError
    \/ ExceptException
    \/ Sleep

Spec == Init /\ [][Next]_vars

\* The invocation is sequential code that keeps running: requests.get
\* returns or raises within its timeout and time.sleep returns, so a step
\* that can be taken is taken.
FairSpec == Spec /\ WF_vars(Next)

\* ------------------------------------------------------------------------
\* Observations on a run
\* ------------------------------------------------------------------------
RECURSIVE CountIn(_, _)
CountIn(seq, S) ==
    IF seq = <<>> THEN 0
    ELSE (IF Head(seq) \in S THEN 1 ELSE 0) + CountIn(Tail(seq), S)

GetEvents == {e.cls : e \in GetExceptions} \cup {"response"}

\* The GET outcomes of the run, in order.
GetLog == SelectSeq(events, LAMBDA e : e \in GetEvents)

Gets == Len(GetLog)

Sleeps == CountIn(events, {"sleep"})

Parses == CountIn(events, {"parse"})

EntitiesProcessed == CountIn(events, {"entity"})

Done == pc = "done"

TypeOK ==
    /\ retries \in RetriesValues
    /\ attempt \in 0..MaxRetries
    /\ pc \in {"for", "get", "check", "parse", "entities", "except", "sleep", "done"}
    /\ status \in {"running", "returned", "raised"}
    /\ (pc = "done") = (status # "running")

\* The index in events of the latest GET, and what happened since.
LastGetIndex ==
    CHOOSE i \in 1..Len(events) :
        /\ events[i] \in GetEvents
        /\ \A j \in (i + 1)..Len(events) : events[j] \notin GetEvents

SinceGet == SubSeq(events, LastGetIndex + 1, Len(events))

\* The latest GET returned a response, which is then the value of response.
GotResponse == Gets >= 1 /\ GetLog[Gets] = "response"

HasRequiredContentType(r) == r.content_type = Some(RequiredContentType)

\* The entities of a payload that fail validation.
InvalidEntities(content) ==
    {i \in 1..Len(content.entity) : RaisesValidationError(content.entity[i], content)}

\* A payload with the required content type, a non-empty decodable body and
\* valid entities only.
ValidPayload(r) ==
    /\ HasRequiredContentType(r)
    /\ r.content.bytes = "feed"
    /\ InvalidEntities(r.content) = {}

\* A returned value that is a Result: the three slots, the vehicle slot
\* holding a record that satisfies the schema.
IsValidatedResult(v) ==
    /\ v # None
    /\ DOMAIN Get1(v) = {"vehicle", "trip_update", "alert"}
    /\ Get1(v).vehicle # None => Violations(Get1(Get1(v).vehicle)) = {}

\* ------------------------------------------------------------------------
\* C1: with retries = N >= 1 and a GET that raises Timeout or
\* ConnectionError on every call, a finished invocation has made exactly N
\* GETs with one sleep between consecutive GETs (N-1 sleeps, none after
\* the last GET) and has raised the network error of the last GET.
\* ------------------------------------------------------------------------
AllNetworkErrors == \A i \in 1..Gets : GetLog[i] \in NetworkErrors

C1_RetriesExhaustedOnNetworkErrors ==
    (Done /\ retries >= 1 /\ AllNetworkErrors) =>
        /\ Gets = retries
        /\ Sleeps = retries - 1
        /\ Len(events) = 2 * retries - 1
        /\ \A i \in 1..Len(events) : (events[i] = "sleep") <=> (i % 2 = 0)
        /\ status = "raised"
        /\ raised = Exc(GetLog[Gets], "")

C1_Witness ==
    /\ Done
    /\ retries = DefaultRetries
    /\ events = <<"Timeout", "sleep", "ConnectionError", "sleep", "Timeout">>
    /\ raised.cls = "Timeout"

\* ------------------------------------------------------------------------
\* C2: with retries = 3, two GETs that raise network errors are both
\* retried (no error is surfaced after them), and a third GET that returns
\* a valid payload makes the invocation return the validated Result after
\* exactly 3 GETs, without raising.
\* ------------------------------------------------------------------------
C2_TwoNetworkErrors ==
    /\ retries = DefaultRetries
    /\ Gets >= 2
    /\ GetLog[1] \in NetworkErrors
    /\ GetLog[2] \in NetworkErrors

C2_SucceedsOnThirdAttempt ==
    C2_TwoNetworkErrors =>
        /\ Gets = 2 => status = "running"
        /\ (Gets >= 3 /\ GotResponse /\ ValidPayload(response)) =>
              /\ Gets = 3
              /\ Sleeps = 2
              /\ pc \in {"check", "parse", "entities", "done"}
              /\ status # "raised"
              /\ raised = NoExc
              /\ Done => (status = "returned" /\ IsValidatedResult(retval)
                          /\ retval = Some(result))

C2_Witness ==
    /\ C2_TwoNetworkErrors
    /\ Gets = 3
    /\ GotResponse
    /\ ValidPayload(response)
    /\ Len(response.content.entity) = 2
    /\ status = "returned"
    /\ IsValidatedResult(retval)
    /\ Get1(retval).vehicle # None

\* ------------------------------------------------------------------------
\* C3: a first response with the required content type and an empty body
\* ends the invocation at once with 'No valid GTFS RT data found': one
\* GET, no sleep, for any retries >= 1.
\* ------------------------------------------------------------------------
C3_EmptyBodyNotRetried ==
    (/\ retries >= 1
     /\ events # <<>>
     /\ events[1] = "response"
     /\ Gets = 1
     /\ HasRequiredContentType(response)
     /\ response.content.bytes = "empty"
     /\ pc \notin {"check", "except"}) =>
        /\ Done
        /\ status = "raised"
        /\ raised = Exc("Exception", "No valid GTFS RT data found")
        /\ Sleeps = 0

\* ------------------------------------------------------------------------
\* C4: a GET that raises InvalidURL ends the invocation at once with
\* InvalidURL: one GET, no sleep, for any retries >= 1.
\* ------------------------------------------------------------------------
C4_InvalidURLNotRetried ==
    (/\ retries >= 1
     /\ events # <<>>
     /\ events[1] = "InvalidURL"
     /\ pc # "except") =>
        /\ Done
        /\ status = "raised"
        /\ raised.cls = "InvalidURL"
        /\ Gets = 1
        /\ Sleeps = 0

\* ------------------------------------------------------------------------
\* C5: a response whose Content-Type is not 'application/x-protobuf'
\* (a missing header included) ends the invocation with the content type
\* error: nothing follows that GET (no sleep, no further GET, no parse), so
\* a first such response means exactly one GET and no sleep.
\* ------------------------------------------------------------------------
C5_ContentTypeMismatchFatal ==
    (retries >= 1 /\ GotResponse /\ ~HasRequiredContentType(response)) =>
        /\ pc \in {"check", "except", "done"}
        /\ SinceGet = <<>>
        /\ Parses = 0
        /\ Gets = attempt + 1
        /\ Sleeps = attempt
        /\ Done => (status = "raised"
                    /\ raised = Exc("ValueError", "Unexpected content type"))

C5_Witness ==
    /\ Done
    /\ retries = DefaultRetries
    /\ events = <<"response">>
    /\ response.content_type = None
    /\ response.content.bytes = "feed"
    /\ raised.msg = "Unexpected content type"

\* ------------------------------------------------------------------------
\* C6: an invocation that returns a Result got it from a response with a
\* 2xx status code.
\* ------------------------------------------------------------------------
C6_SuccessRequires2xx ==
    (status = "returned" /\ retval # None) => response.status_code \in 200..299

\* ------------------------------------------------------------------------
\* C7: whatever retries is (0 and negative values included), a finished
\* invocation has either raised an error or returned a validated Result.
\* ------------------------------------------------------------------------
C7_ResultOrError ==
    Done =>
        \/ status = "raised" /\ raised # NoExc
        \/ status = "returned" /\ IsValidatedResult(retval)

C9_MalformedBodyRaisesDecodeError ==
    (/\ retries >= 1
     /\ GotResponse
     /\ HasRequiredContentType(response)
     /\ response.content.bytes = "malformed") =>
        /\ pc \in {"check", "parse", "except", "done"}
        /\ SinceGet \in {<<>>, <<"parse">>}
        /\ EntitiesProcessed = 0
        /\ Gets = attempt + 1
        /\ Sleeps = attempt
        /\ retval = None
        /\ Done => (status = "raised" /\ raised.cls = "DecodeError")

C9_Witness ==
    /\ Done
    /\ retries = DefaultRetries
    /\ events = <<"response", "parse">>
    /\ response.content.bytes = "malformed"
    /\ raised.cls = "DecodeError"

\* ------------------------------------------------------------------------
\* C10: entities are processed in feed order, and the first vehicle entity
\* that violates the schema ends the invocation with ValidationError: no
\* later entity is processed, no sleep and no further GET follow, and no
\* Result is returned, whatever the other entities and the attempts left.
\* ------------------------------------------------------------------------
Minimum(S) == CHOOSE i \in S : \A j \in S : i <= j

C10_ValidationIsTerminal ==
    (/\ retries >= 1
     /\ GotResponse
     /\ HasRequiredContentType(response)
     /\ response.content.bytes = "feed") =>
        LET invalid == InvalidEntities(response.content)
        IN  invalid # {} =>
              LET first == Minimum(invalid)
                  processed == CountIn(SinceGet, {"entity"})
              IN  /\ pc \in {"check", "parse", "entities", "except", "done"}
                  /\ CountIn(SinceGet, {"sleep"}) = 0
                  /\ processed <= first
                  /\ pc = "entities" => (idx = processed + 1 /\ idx <= first)
                  /\ retval = None
                  /\ Done => (/\ status = "raised"
                              /\ raised.cls = "ValidationError"
                              /\ processed = first)

C10_Witness ==
    /\ Done
    /\ retries = DefaultRetries
    /\ GotResponse
    /\ Len(response.content.entity) = 2
    /\ InvalidEntities(response.content) = {1}
    /\ events = <<"response", "parse", "entity">>
    /\ raised.cls = "ValidationError"

\* ------------------------------------------------------------------------
\* C11: when every one of the `retries` GETs fails with a retried failure
\* (Timeout, ConnectionError or an unclassified exception), the caller
\* receives exactly the failure of the last attempt: not an earlier one,
\* not a distinct 'retries exceeded' error.  More generally an error that
\* leaves through one of the two retrying clauses is the exception that
\* was in flight.
\* ------------------------------------------------------------------------
RetriedGetFailures == {"Timeout", "ConnectionError", "RuntimeError"}

C11_LastFailureSurfaced ==
    /\ (/\ Done
        /\ retries >= 1
        /\ Gets = retries
        /\ \A i \in 1..Gets : GetLog[i] \in RetriedGetFailures) =>
            /\ status = "raised"
            /\ raised = Exc(GetLog[retries], "")
    /\ (/\ status = "raised"
        /\ Handler(exc.cls) \in {"RequestException", "Exception"}) =>
            raised = exc

C11_Witness ==
    /\ Done
    /\ retries = DefaultRetries
    /\ events = <<"Timeout", "sleep", "ConnectionError", "sleep", "RuntimeError">>
    /\ raised = Exc("RuntimeError", "")

\* ------------------------------------------------------------------------
\* C12: in a returned Result each of the slots vehicle, trip_update and
\* alert is populated if and only if some entity of the decoded feed has
\* that field; a feed with no entities yields three absent slots.
\* ------------------------------------------------------------------------
Slots == {"vehicle", "trip_update", "alert"}

C12_SlotPopulatedIffTagPresent ==
    (status = "returned" /\ retval # None) =>
        LET es == response.content.entity
            r  == Get1(retval)
        IN  \A slot \in Slots :
                (r[slot] # None) <=> (\E i \in 1..Len(es) : HasField(es[i], slot))

C12_Witness ==
    /\ status = "returned"
    /\ retval # None
    /\ Len(response.content.entity) = 2
    /\ Get1(retval).vehicle # None
    /\ Get1(retval).trip_update # None
    /\ Get1(retval).alert = None

\* The entity processed last in the current pass over feed.entity was a
\* vehicle entity, and its record is the one in result.
JustMappedVehicle ==
    /\ pc \in {"entities", "done"}
    /\ status # "raised"
    /\ idx > 1
    /\ HasField(feed.entity[idx - 1], "vehicle")

SubRecords == {"trip", "vehicle", "position"}

\* ------------------------------------------------------------------------
\* C13: in the record mapped from a vehicle entity, every scalar field that
\* is not set in the wire entity is absent (None), not 0 or "", and a
\* sub-record (trip, vehicle, position) that is not set is absent.
\* ------------------------------------------------------------------------
C13_AbsentFieldsMapToAbsent ==
    JustMappedVehicle =>
        LET wire   == Get1(feed.entity[idx - 1].vehicle)
            mapped == Get1(result.vehicle)
        IN  /\ \A f \in VehicleScalarFields :
                  ~HasField(wire, f) => mapped[f] = None
            /\ \A sub \in SubRecords :
                  ~HasField(wire, sub) => mapped[sub] = None

\* ------------------------------------------------------------------------
\* C14: a vehicle entity whose id is not set never gets past validation:
\* the entity loop does not move beyond it, the invocation ends with
\* ValidationError naming id, and no Result is returned.
\* ------------------------------------------------------------------------
C14_MissingIdFailsValidation ==
    \A i \in 1..Len(feed.entity) :
        (HasField(feed.entity[i], "vehicle") /\ ~HasField(feed.entity[i], "id")) =>
            /\ pc = "entities" => idx <= i
            /\ status # "returned"
            /\ "id" \in Violations(VehicleData(feed.entity[i], feed))
            /\ Done => (status = "raised" /\ raised.cls = "ValidationError")

StepsPerAttempt == MaxEntities + 8

PositionRank ==
    CASE pc = "for"      -> MaxEntities + 7
      [] pc = "get"      -> MaxEntities + 6
      [] pc = "check"    -> MaxEntities + 5
      [] pc = "parse"    -> MaxEntities + 4
      [] pc = "entities" -> 3 + (Len(feed.entity) + 1 - idx)
      [] pc = "except"   -> 2
      [] pc = "sleep"    -> 1
      [] pc = "done"     -> 0

AttemptsRemaining == IF retries > attempt THEN retries - attempt ELSE 0

Rank == AttemptsRemaining * StepsPerAttempt + PositionRank

C16_Terminates ==
    /\ <>Done
    /\ [][Rank' < Rank /\ Rank' >= 0]_vars
    /\ [](Gets <= (IF retries > 0 THEN retries ELSE 0))

C16_Witness ==
    /\ Done
    /\ retries = DefaultRetries
    /\ Gets = DefaultRetries
    /\ events = <<"RuntimeError", "sleep", "InvalidURL", "sleep", "response">>
    /\ status = "raised"

\* ------------------------------------------------------------------------
\* C17: when the feed holds vehicle entities that all pass validation, the
\* returned Result holds exactly the record mapped from the last vehicle
\* entity in feed order, with that entity's id, whatever trip_update or
\* alert entities come before or after it.
\* ------------------------------------------------------------------------
VehicleEntities(content) ==
    {i \in 1..Len(content.entity) : HasField(content.entity[i], "vehicle")}

Maximum(S) == CHOOSE i \in S : \A j \in S : i >= j

C17_LastVehicleWins ==
    (status = "returned" /\ retval # None) =>
        LET vehicles == VehicleEntities(response.content)
        IN  vehicles # {} =>
              LET last == response.content.entity[Maximum(vehicles)]
              IN  /\ Get1(retval).vehicle = Some(VehicleData(last, feed))
                  /\ HasField(last, "id") => Get1(Get1(retval).vehicle).id = last.id

C17_Witness ==
    /\ status = "returned"
    /\ retval # None
    /\ VehicleEntities(response.content) = {1, 2}
    /\ response.content.entity[1].id = Some("e2")
    /\ response.content.entity[2].id = Some("e1")
    /\ Get1(Get1(retval).vehicle).id = Some("e1")

====
